---- MODULE Spec2Model ----
(***************************************************************************)
(* PDF-to-Markdown converter: the tRPC router (convert, get, history,      *)
(* delete, reanalyzeLinks), the persistence layer it calls, the blob       *)
(* storage adapter and the processPDF wrapper around the Python worker.    *)
(*                                                                         *)
(* The repository holds two generations of the router: server/routers.ts, *)
(* whose convert falls back to a simulated result when processPDF rejects, *)
(* and the router kept in server/storage.ts (lines 75-286), whose convert  *)
(* lets the rejection reach its catch block.  routerVersion says which of  *)
(* the two is deployed.                                                    *)
(***************************************************************************)
EXTENDS Integers, Sequences, FiniteSets, TLC

\* ------------------------------------------------------------------------
\* Bounds of the model
\* ------------------------------------------------------------------------
MaxCalls == 2          \* convert calls issued in one behaviour
MaxClock == 1          \* last value of the database clock (seconds)

\* ------------------------------------------------------------------------
\* Program constants
\* ------------------------------------------------------------------------
PYTHON_TIMEOUT_MS == 600000
DefaultLimit == 20
DefaultOffset == 0
MaxLimit == 100

\* ------------------------------------------------------------------------
\* Values
\* ------------------------------------------------------------------------
\* A nullable column or variable is a sequence of length at most one.
Null == <<>>
Some(v) == <<v>>
IsNull(o) == o = <<>>
Val(o) == o[1]

\* ctx.user?.id || null : the anonymous caller and the NULL userId are 0.
NoUser == 0
Users == {1, 2}
Callers == {NoUser} \cup Users
ConvertCallers == {NoUser, 1}

\* A filename is a sequence of pieces; ".pdf" is the piece the code looks for.
Filenames == { <<"a", ".pdf", "b", ".pdf">> }

CallIds == 1..MaxCalls

RouterVersions == {"routers.ts", "storage.ts"}

Max(a, b) == IF a >= b THEN a ELSE b
Abs(x) == IF x < 0 THEN -x ELSE x
Range(s) == { s[i] : i \in 1..Len(s) }

RECURSIVE SeqMax(_)
\* Math.max(...pages, 0)
SeqMax(s) == IF s = <<>> THEN 0 ELSE Max(Head(s), SeqMax(Tail(s)))

\* ------------------------------------------------------------------------
\* Markdown text, as the sequence of the pieces the regular expressions of
\* the linker and the simulated result tell apart.  Every piece has the
\* same fields:
\*   t = "page"  "## Page n"            t = "q"     "**n.**"
\*   t = "text"  other text; kw says whether it contains a figure keyword
\*   t = "name"  a filename printed into the text (name)
\*   t = "img"   "![...](images/<name>)"; kw as for text
\* ------------------------------------------------------------------------
\*   len is the number of characters of the piece.
\* Text and page headings end their line; question markers, names and image
\* embeds that follow one another stand on one line.
Page(n) == [t |-> "page", n |-> n, kw |-> FALSE, name |-> <<>>, len |-> 9]
Question(n) == [t |-> "q", n |-> n, kw |-> FALSE, name |-> <<>>, len |-> 6]
Text(kw, len) == [t |-> "text", n |-> 0, kw |-> kw, name |-> <<>>, len |-> len]
Name(f) == [t |-> "name", n |-> 0, kw |-> FALSE, name |-> f, len |-> 8]
Img(f) == [t |-> "img", n |-> 0, kw |-> TRUE, name |-> f, len |-> 40]

\* String.prototype.replace('.pdf', '') : drops the first occurrence only.
RECURSIVE ReplaceFirstPdf(_)
ReplaceFirstPdf(f) ==
    IF f = <<>> THEN <<>>
    ELSE IF Head(f) = ".pdf" THEN Tail(f)
    ELSE <<Head(f)>> \o ReplaceFirstPdf(Tail(f))

\* The filename without its .pdf suffix.
StripPdfSuffix(f) ==
    IF Len(f) > 0 /\ f[Len(f)] = ".pdf" THEN SubSeq(f, 1, Len(f) - 1) ELSE f

\* s occurs in f as a contiguous run of pieces.
Occurs(s, f) ==
    \E i \in 0..(Len(f) - Len(s)) : SubSeq(f, i + 1, i + Len(s)) = s

\* The Markdown text contains the string s.
MarkdownContains(md, s) ==
    \E i \in 1..Len(md) : md[i].t = "name" /\ Occurs(s, md[i].name)

\* ------------------------------------------------------------------------
\* Figure-question linker of server/pdfProcessor.ts (page distance and
\* keyword gate).  Confidences are in hundredths.
\* ------------------------------------------------------------------------
\* The first index after i of a piece whose kind is in kinds, or Len+1.
NextOf(md, i, kinds) ==
    IF \E j \in (i + 1)..Len(md) : md[j].t \in kinds
    THEN CHOOSE j \in (i + 1)..Len(md) :
             /\ md[j].t \in kinds
             /\ \A k \in (i + 1)..(j - 1) : md[k].t \notin kinds
    ELSE Len(md) + 1

\* Every question taken to reference a figure.
ReferencesAnything(md, i) == TRUE

\* figureKeywords.some(kw => questionText.includes(kw)) for the question at
\* i: its text runs to the next question marker or the end of the page block.
ReferencesFigure(md, i) ==
    \E j \in (i + 1)..(NextOf(md, i, {"q", "page"}) - 1) : md[j].kw

RECURSIVE NearbyLinks(_, _, _)
\* figures.filter(|fig.pageNumber - pageNum| <= 1), one link pushed for each.
NearbyLinks(figures, questionNum, pageNum) ==
    IF figures = <<>> THEN <<>>
    ELSE LET fig == Head(figures)
             pageDistance == Abs(fig.pageNumber - pageNum)
             rest == NearbyLinks(Tail(figures), questionNum, pageNum)
         IN  IF pageDistance <= 1
             THEN << [figureId |-> fig.name, questionNumber |-> questionNum,
                      pageNumber |-> fig.pageNumber,
                      confidence |-> IF pageDistance = 0 THEN 95 ELSE 75] >> \o rest
             ELSE rest

RECURSIVE ScanQuestions(_, _, _, _)
\* The two nested regex loops: pieces before the first "## Page" belong to
\* no page block; page is the number of the enclosing block.
ScanQuestions(md, figures, i, page) ==
    IF i > Len(md) THEN <<>>
    ELSE IF md[i].t = "page" THEN ScanQuestions(md, figures, i + 1, Some(md[i].n))
    ELSE IF md[i].t = "q" /\ ~IsNull(page) /\ ReferencesFigure(md, i)
    THEN NearbyLinks(figures, md[i].n, Val(page))
             \o ScanQuestions(md, figures, i + 1, page)
    ELSE ScanQuestions(md, figures, i + 1, page)

SameKey(a, b) == a.figureId = b.figureId /\ a.questionNumber = b.questionNumber

RECURSIVE FirstLinks(_, _)
\* The first link of every key kept, whatever its confidence.
FirstLinks(links, kept) ==
    IF links = <<>> THEN kept
    ELSE IF \E k \in 1..Len(kept) : SameKey(kept[k], Head(links))
    THEN FirstLinks(Tail(links), kept)
    ELSE FirstLinks(Tail(links), Append(kept, Head(links)))

RECURSIVE UniqueLinks(_, _)
\* The Map keyed by figureId-questionNumber: a later link replaces the kept
\* one only when its confidence is higher; insertion order is kept.
UniqueLinks(links, kept) ==
    IF links = <<>> THEN kept
    ELSE LET link == Head(links)
             hit == { k \in 1..Len(kept) : SameKey(kept[k], link) }
         IN  IF hit = {} THEN UniqueLinks(Tail(links), Append(kept, link))
             ELSE LET k == CHOOSE x \in hit : TRUE
                  IN  IF kept[k].confidence < link.confidence
                      THEN UniqueLinks(Tail(links), [kept EXCEPT ![k] = link])
                      ELSE UniqueLinks(Tail(links), kept)

linkFiguresToQuestions(markdown, figures) ==
    UniqueLinks(ScanQuestions(markdown, figures, 1, Null), <<>>)

\* ------------------------------------------------------------------------
\* Figure-question linker of the later pdfProcessor (nearest preceding
\* question by character offset).
\* ------------------------------------------------------------------------
LinkThreshold == 5000

RECURSIVE Offset(_, _)
\* match.index of the piece at i
Offset(md, i) == IF i <= 1 THEN 0 ELSE Offset(md, i - 1) + md[i - 1].len

\* The pieces i..j stand on one line.
SameLine(md, i, j) == \A k \in i..j : md[k].t \in {"q", "name", "img"}

\* imagePattern.exec(markdown) for /!\[.*?\]\(.*?<name>.*?\)/: the leftmost
\* "![" from which the pattern matches.  "." stops at a line break, so the
\* match starts at the first embed of a line on which an embed naming the
\* file follows (or at that embed itself).
ImageMatch(md, name) ==
    LET hits == { i \in 1..Len(md) :
                    /\ md[i].t = "img"
                    /\ \E j \in i..Len(md) :
                           /\ md[j].t = "img"
                           /\ Occurs(name, md[j].name)
                           /\ SameLine(md, i, j) }
    IN  IF hits = {} THEN 0 ELSE CHOOSE i \in hits : \A j \in hits : i <= j

\* The question marker before position i with the smallest distance; 0 if none.
ClosestQuestion(md, i) ==
    LET qs == { j \in 1..(i - 1) : md[j].t = "q" /\ Offset(md, j) < Offset(md, i) }
    IN  IF qs = {} THEN 0 ELSE CHOOSE j \in qs : \A k \in qs : k <= j

\* The distances below the threshold at which (1 - distance / 5000) * 100 is
\* a half in exact arithmetic but evaluates to just under it in double
\* arithmetic (57.49999999999999 for 2125), so that Math.round goes down.
HalfRoundedDown == {2125, 2175, 2225, 2275, 2325}

\* Math.round(Math.max(0.5, 1 - distance / 5000) * 100) / 100, in hundredths
OffsetConfidence(distance) ==
    LET halfUp == ((LinkThreshold - distance) * 100 + LinkThreshold \div 2)
                      \div LinkThreshold
    IN  Max(50, IF distance \in HalfRoundedDown THEN halfUp - 1 ELSE halfUp)

RECURSIVE linkFiguresToQuestionsByOffset(_, _)
linkFiguresToQuestionsByOffset(markdown, images) ==
    IF images = <<>> THEN <<>>
    ELSE LET image == Head(images)
             at == ImageMatch(markdown, image.name)
             q == IF at = 0 THEN 0 ELSE ClosestQuestion(markdown, at)
             distance == IF q = 0 THEN 0 ELSE Offset(markdown, at) - Offset(markdown, q)
             rest == linkFiguresToQuestionsByOffset(markdown, Tail(images))
         IN  IF q # 0 /\ distance < LinkThreshold
             THEN << [figureId |-> image.name, questionNumber |-> markdown[q].n,
                      pageNumber |-> image.pageNumber,
                      confidence |-> OffsetConfidence(distance)] >> \o rest
             ELSE rest

\* ------------------------------------------------------------------------
\* generateSimulatedResult of server/routers.ts
\* ------------------------------------------------------------------------
SimImage(conversionId, file, page) ==
    [name |-> <<file>>, url |-> <<"storage.example.com", conversionId, file>>,
     pageNumber |-> page]

generateSimulatedResult(conversionId, filename) ==
    [markdown |->
        << Text(FALSE, 2), Name(ReplaceFirstPdf(filename)),
           Text(FALSE, 12), Name(filename), Text(FALSE, 90),
           Page(1), Text(FALSE, 300), Question(1), Text(FALSE, 130),
           Page(2), Question(2), Text(TRUE, 160),
           Page(3), Img(<<"page3_img1.jpeg">>), Text(FALSE, 3),
           Page(7), Img(<<"page7_img1.jpeg">>) >>,
     images |-> << SimImage(conversionId, "page3_img1.jpeg", 3),
                   SimImage(conversionId, "page7_img1.jpeg", 7),
                   SimImage(conversionId, "page12_img1.jpeg", 12) >>,
     totalPages |-> 12,
     figuresExtracted |-> 8,
     conversionMethod |-> "Tesseract OCR",
     figureQuestionLinks |->
        << [figureId |-> <<"page3_img1.jpeg">>, questionNumber |-> 2,
            pageNumber |-> 3, confidence |-> 85],
           [figureId |-> <<"page7_img1.jpeg">>, questionNumber |-> 15,
            pageNumber |-> 7, confidence |-> 90] >>]

\* ------------------------------------------------------------------------
\* Files the Python worker leaves in the output directory, and what the
\* close handler of executePythonConverter reads out of them.
\* ------------------------------------------------------------------------
\* An image file: its name, the number after "page" in the name (0 if the
\* name has none), the first number after "figure_" (0 if none), and
\* whether the name contains "_full".
ImageFile(file, pageTag, figureTag, full) ==
    [name |-> <<file>>, pageTag |-> pageTag, figureTag |-> figureTag, full |-> full]

NoMetadata == [kind |-> "none", total_pages |-> 0, question_figure_map |-> <<>>]
BadMetadata == [kind |-> "invalid", total_pages |-> 0, question_figure_map |-> <<>>]

SampleMarkdown ==
    << Page(1), Question(1), Text(TRUE, 60), Img(<<"page1_img1.png">>),
       Question(2), Text(FALSE, 40) >>

\* What one run of the worker can leave behind.
WorkerOutputs ==
    { [md |-> Some(SampleMarkdown),
       meta |-> [kind |-> "ok", total_pages |-> 4,
                 question_figure_map |-> << [q |-> 1, figures |-> << <<"page1_img1.png">> >>] >>],
       images |-> Some(<< ImageFile("page1_img1.png", 1, 0, FALSE),
                          ImageFile("page2_full.png", 2, 0, TRUE) >>)],
      [md |-> Null, meta |-> NoMetadata, images |-> Null],
      [md |-> Some(SampleMarkdown), meta |-> BadMetadata, images |-> Null] }

\* Exit codes of the worker seen by the close handler.
ExitCodes == {0, 1}
\* Page totals the stdout handler may have scraped from "Processing page
\* i/n" lines when the process closes (0: none seen).
ScrapedTotals == {0, 3}

\* One entry of the figures list built from the images directory.
ReadFigure(version, file) ==
    IF version = "routers.ts"
    THEN [page |-> file.pageTag, filename |-> file.name,
          type |-> IF file.full THEN "page_render" ELSE "embedded_image"]
    ELSE [page |-> IF file.figureTag # 0 THEN file.figureTag ELSE file.pageTag,
          filename |-> file.name,
          type |-> IF file.full THEN "page_render"
                   ELSE IF file.figureTag # 0 THEN "detected_figure"
                   ELSE "embedded_image"]

ReadFigures(version, files) ==
    [i \in 1..Len(files) |-> ReadFigure(version, files[i])]

\* figures.find(f => f.filename === figureName)?.page || 0
FigurePage(figures, figureName) ==
    LET hits == { i \in 1..Len(figures) : figures[i].filename = figureName }
    IN  IF hits = {} THEN 0 ELSE figures[CHOOSE i \in hits : \A j \in hits : i <= j].page

RECURSIVE LinksOfEntry(_, _, _)
LinksOfEntry(figures, questionNum, figureNames) ==
    IF figureNames = <<>> THEN <<>>
    ELSE << [figureId |-> Head(figureNames), questionNumber |-> questionNum,
             pageNumber |-> FigurePage(figures, Head(figureNames)),
             confidence |-> 80] >>
         \o LinksOfEntry(figures, questionNum, Tail(figureNames))

RECURSIVE LinksOfMap(_, _)
\* the loops over Object.entries(metadata.question_figure_map)
LinksOfMap(figures, map) ==
    IF map = <<>> THEN <<>>
    ELSE LinksOfEntry(figures, Head(map).q, Head(map).figures)
         \o LinksOfMap(figures, Tail(map))

CountedTypes(version) ==
    IF version = "routers.ts" THEN {"embedded_image"}
    ELSE {"embedded_image", "detected_figure"}

ConversionMethod(version) ==
    IF version = "routers.ts" THEN "Tesseract OCR" ELSE "PyMuPDF + Tesseract OCR"

\* a || b || c on numbers
OrElse(a, b) == IF a # 0 THEN a ELSE b

\* The value the close handler resolves with (exit code 0, files readable).
ReadResults(version, files, scraped) ==
    LET figures == IF IsNull(files.images) THEN <<>>
                   ELSE ReadFigures(version, Val(files.images))
        pages == [i \in 1..Len(figures) |-> figures[i].page]
    IN  [markdown |-> IF IsNull(files.md) THEN <<>> ELSE Val(files.md),
         figures |-> figures,
         totalPages |-> OrElse(files.meta.total_pages, OrElse(scraped, SeqMax(pages))),
         figuresExtracted |->
             Cardinality({ i \in 1..Len(figures) : figures[i].type \in CountedTypes(version) }),
         conversionMethod |-> ConversionMethod(version),
         figureQuestionLinks |-> LinksOfMap(figures, files.meta.question_figure_map)]

\* Error messages
TimeoutMessage == "Python converter timed out after 600 seconds"
ExitMessage(code) == "Python converter failed with code 1: <stderr>"
SpawnMessage == "Failed to start Python process: spawn python3 ENOENT"
ReadMessage == "Failed to read conversion results: SyntaxError: Unexpected token"
ScriptMessage == "PDF converter script not found"
FsMessage == "ENOSPC: no space left on device, write"
DuplicateMessage == "Duplicate entry for key conversions.conversionId"

\* ------------------------------------------------------------------------
\* Blob storage (server/storage.ts)
\* ------------------------------------------------------------------------
BlobKey(conversionId, kind, name) ==
    [id |-> conversionId, kind |-> kind, name |-> name]
\* `/storage/${key}`
Url(key) == <<"/storage", key>>

\* storagePut that succeeds: the file is (over)written; the count of writes
\* per key is kept.
storagePut(store, key) ==
    IF key \in DOMAIN store THEN [store EXCEPT ![key] = @ + 1]
    ELSE store @@ (key :> 1)

\* ------------------------------------------------------------------------
\* Persistence layer (server/db.ts over the conversions table of the schema)
\* ------------------------------------------------------------------------
\* Column defaults of the conversions table for the columns an insert omits.
NewRow(values, now) ==
    values @@
    [userId |-> NoUser, pdfKey |-> Null, pdfUrl |-> Null, markdownKey |-> Null,
     markdownUrl |-> Null, markdownContent |-> Null, status |-> "pending",
     totalPages |-> Null, figuresExtracted |-> Null, conversionMethod |-> Null,
     fileSize |-> Null, errorMessage |-> Null, images |-> Null,
     figureQuestionLinks |-> Null, createdAt |-> now, updatedAt |-> now,
     completedAt |-> Null]

\* createConversion: db.insert(conversions).values(conversion)
createConversion(available, table, values, now) ==
    IF ~available THEN table
    ELSE table @@ (values.conversionId :> NewRow(values, now))

\* A SELECT that has lost its WHERE clause: some row of the table.
getAnyConversion(available, table, conversionId) ==
    IF ~available \/ DOMAIN table = {} THEN Null
    ELSE Some(table[CHOOSE id \in DOMAIN table : \A other \in DOMAIN table : id <= other])

\* getConversionById: the row, or Null for undefined
getConversionById(available, table, conversionId) ==
    IF ~available THEN Null
    ELSE IF conversionId \in DOMAIN table THEN Some(table[conversionId]) ELSE Null

\* A row after UPDATE ... SET updates at time now: updatedAt is declared ON
\* UPDATE CURRENT_TIMESTAMP (onUpdateNow), which MySQL applies when the
\* UPDATE changes the value of some other column of the row.
UpdatedRow(row, updates, now) ==
    IF updates @@ row = row THEN row
    ELSE [updatedAt |-> now] @@ updates @@ row

\* An UPDATE that has lost its WHERE clause.
updateEveryConversion(available, table, conversionId, updates, now) ==
    IF ~available THEN table
    ELSE [id \in DOMAIN table |-> UpdatedRow(table[id], updates, now)]

\* An update that inserts the row when the table has none for the id.
upsertConversion(available, table, conversionId, updates, now) ==
    IF ~available THEN table
    ELSE IF conversionId \in DOMAIN table
    THEN [table EXCEPT ![conversionId] = UpdatedRow(@, updates, now)]
    ELSE table @@ (conversionId :>
                      UpdatedRow(NewRow([conversionId |-> conversionId], now),
                                 updates, now))

\* updateConversion: UPDATE ... SET updates WHERE conversionId = ...
updateConversion(available, table, conversionId, updates, now) ==
    IF ~available \/ conversionId \notin DOMAIN table THEN table
    ELSE [table EXCEPT ![conversionId] = UpdatedRow(@, updates, now)]

\* deleteConversion
deleteConversion(available, table, conversionId) ==
    IF ~available THEN table
    ELSE [id \in DOMAIN table \ {conversionId} |-> table[id]]

\* countUserConversions(userId?)
countUserConversions(available, table, userId) ==
    IF ~available THEN 0
    ELSE Cardinality({ id \in DOMAIN table : table[id].userId = userId })

\* ORDER BY createdAt DESC: every order of the rows the clause allows.
OrderedByCreatedAtDesc(table, ids) ==
    /\ Len(ids) = Cardinality(DOMAIN table)
    /\ Range(ids) = DOMAIN table
    /\ \A i, j \in 1..Len(ids) :
           i < j => table[ids[i]].createdAt >= table[ids[j]].createdAt

Orderings(table) ==
    { ids \in [1..Cardinality(DOMAIN table) -> DOMAIN table] :
          OrderedByCreatedAtDesc(table, ids) }

\* LIMIT limit OFFSET offset of an ordered result
Slice(rows, limit, offset) ==
    SubSeq(rows, offset + 1, IF offset + limit < Len(rows) THEN offset + limit ELSE Len(rows))

\* getAllConversions(limit, offset): the results the query may return
getAllConversions(available, table, limit, offset) ==
    IF ~available THEN { <<>> }
    ELSE { Slice([i \in 1..Len(ids) |-> table[ids[i]]], limit, offset) :
               ids \in Orderings(table) }

\* ------------------------------------------------------------------------
\* State
\* ------------------------------------------------------------------------
VARIABLES
    routerVersion,  \* which generation of the router and processor is deployed
    dbAvailable,    \* getDb() returns a connection
    conversions,    \* the conversions table: conversionId -> row
    blobs,          \* blob storage: key -> number of writes
    tempDirs,       \* ids whose /tmp/pdf_conversion_<id> directory exists
    nanoCount,      \* identifiers nanoid() has handed out
    clock,          \* the clock behind defaultNow() and new Date()
    calls,          \* the convert calls: where each one stands, its locals,
                    \* and once it is over what it returned or threw
    worker,         \* the Python process of the first call, its timer and
                    \* its promise, where they are followed event by event
    linking         \* one call of linkFiguresToQuestions: its arguments and,
                    \* once it has returned, its result

vars == << routerVersion, dbAvailable, conversions, blobs, tempDirs, nanoCount,
           clock, calls, worker, linking >>

\* No call of the linker under way.
NoLinking == [markdown |-> <<>>, figures |-> <<>>, links |-> <<>>, done |-> FALSE]

\* An output directory with nothing in it.
NoFiles == [md |-> Null, meta |-> NoMetadata, images |-> Null]

\* The Markdown file alone: no metadata file, no images directory.
MarkdownOnly == [md |-> Some(SampleMarkdown), meta |-> NoMetadata, images |-> Null]

\* Markdown and images, but a metadata file that is missing or gives no
\* page count.
NoPageCount ==
    [md |-> Some(SampleMarkdown), meta |-> NoMetadata,
     images |-> Some(<< ImageFile("page1_img1.png", 1, 0, FALSE),
                        ImageFile("page2_full.png", 2, 0, TRUE) >>)]

\* What the worker can have left behind when it ends.
ExitOutputs == WorkerOutputs \cup {MarkdownOnly, NoPageCount}

\* No process spawned, no timer armed, no promise settled.
NoProcess ==
    [proc |-> "none", timer |-> "none", signalled |-> FALSE, settled |-> FALSE,
     code |-> 0, scraped |-> 0, files |-> NoFiles]

IdleCall ==
    [pc |-> "idle", userId |-> NoUser, filename |-> <<>>, conversionId |-> 0,
     persisted |-> FALSE, tempId |-> 0, pyResult |-> Null, images |-> <<>>,
     workerFailed |-> FALSE, result |-> Null, error |-> Null]

ServerStarts(available) ==
    /\ routerVersion \in RouterVersions
    /\ dbAvailable = available
    /\ conversions = << >>
    /\ blobs = << >>
    /\ tempDirs = {}
    /\ nanoCount = 0
    /\ clock = 0
    /\ calls = [c \in CallIds |-> IdleCall]
    /\ worker = NoProcess

Init == ServerStarts(TRUE) /\ linking = NoLinking

\* nanoid(): an identifier no earlier call in this process returned.
nanoid(count) == count + 1

\* An identifier derived from the input, as content-based deduplication
\* would give.
IdFromFilename(count, filename) == Len(filename)

\* The identifier convert gives a conversion (routers.ts line 34).
NewConversionId(count, filename) == nanoid(count)

Set(c, fields) == [calls EXCEPT ![c] = fields @@ @]

\* The payload convert returns.
Payload(conversionId, result) ==
    [conversionId |-> conversionId, markdown |-> result.markdown,
     images |-> result.images, totalPages |-> result.totalPages,
     figuresExtracted |-> result.figuresExtracted,
     conversionMethod |-> result.conversionMethod,
     figureQuestionLinks |-> result.figureQuestionLinks]

\* ------------------------------------------------------------------------
\* convert, from its call to the await of processPDF
\* ------------------------------------------------------------------------
\* Lines 28-46: decode, new id, createConversion.  The unique index on
\* conversionId makes the insert of a second row with the id throw, before
\* the try block.  Calls are numbered in the order they arrive; now is the
\* time of the database clock when the row is inserted.
ConvertStart(c, user, filename, now) ==
    /\ calls[c].pc = "idle"
    /\ \A d \in CallIds : d < c => calls[d].pc # "idle"
    /\ now >= clock
    /\ clock' = now
    /\ LET id == NewConversionId(nanoCount, filename)
           userId == user
           duplicate == dbAvailable /\ id \in DOMAIN conversions
       IN  /\ nanoCount' = nanoid(nanoCount)
           /\ IF duplicate
              THEN /\ conversions' = conversions
                   /\ calls' = Set(c, [pc |-> "thrown", userId |-> userId,
                                       filename |-> filename, conversionId |-> id,
                                       error |-> Some(DuplicateMessage)])
              ELSE /\ conversions' = createConversion(dbAvailable, conversions,
                          [conversionId |-> id, userId |-> userId, filename |-> filename,
                           fileSize |-> Some(16), status |-> "processing"], now)
                   /\ calls' = Set(c, [pc |-> "storeInput", userId |-> userId,
                                       filename |-> filename, conversionId |-> id,
                                       persisted |-> dbAvailable])
    /\ UNCHANGED << routerVersion, dbAvailable, blobs, tempDirs, worker, linking >>

\* Lines 50-51: storagePut of the input; a throw goes to the catch block.
StoreInput(c, ok) ==
    /\ calls[c].pc = "storeInput"
    /\ IF ok
       THEN /\ blobs' = storagePut(blobs, BlobKey(calls[c].conversionId, "input", calls[c].filename))
            /\ calls' = Set(c, [pc |-> "updatePdf"])
       ELSE /\ blobs' = blobs
            /\ calls' = Set(c, [pc |-> "catch", error |-> Some(FsMessage)])
    /\ UNCHANGED << routerVersion, dbAvailable, conversions, tempDirs, nanoCount, clock, worker, linking >>

\* Lines 54-57: updateConversion with the key and URL of the input.
UpdatePdf(c) ==
    /\ calls[c].pc = "updatePdf"
    /\ LET pdfKey == BlobKey(calls[c].conversionId, "input", calls[c].filename)
       IN  conversions' = updateConversion(dbAvailable, conversions, calls[c].conversionId,
                              [pdfKey |-> Some(pdfKey), pdfUrl |-> Some(Url(pdfKey))], clock)
    /\ calls' = Set(c, [pc |-> "process"])
    /\ UNCHANGED << routerVersion, dbAvailable, blobs, tempDirs, nanoCount, clock, worker, linking >>

\* ------------------------------------------------------------------------
\* processPDF and executePythonConverter
\* ------------------------------------------------------------------------
\* A convert that lets every rejection of processPDF reach its catch block.
RethrowRejection(version, call, message) ==
    [pc |-> "catch", workerFailed |-> TRUE, pyResult |-> Null,
     error |-> Some(message)] @@ call

\* A rejection answered by calling processPDF again.
RetryRejection(version, call, message) ==
    [pc |-> "process", workerFailed |-> TRUE, pyResult |-> Null] @@ call

\* What convert does with a rejection of processPDF: routers.ts replaces it
\* by the simulated result (lines 61-67) and goes on; the later router has
\* no inner try, so the rejection reaches the catch block.
OnProcessRejected(version, call, message) ==
    IF version = "routers.ts"
    THEN [pc |-> "storeMarkdown", workerFailed |-> TRUE,
          pyResult |-> Null,
          result |-> Some(generateSimulatedResult(call.conversionId, call.filename))]
         @@ call
    ELSE [pc |-> "catch", workerFailed |-> TRUE,
          pyResult |-> Null,
          error |-> Some(message)] @@ call

\* One directory name for every processPDF call.
SharedTempId(conversionId) == MaxCalls + 1

\* nanoid() of processPDF (line 49): one more fresh identifier, which no
\* convert call and no other processPDF call gets.
TempIdOf(conversionId) == MaxCalls + conversionId

\* processPDF up to the await of executePythonConverter: its own nanoid, the
\* temp directory, the PDF written into it, the script looked up, the process
\* spawned and the timer armed.  A throw of the fs calls or a missing script
\* rejects; the catch of processPDF removes the directory.
StartProcessing(c, how) ==
    /\ calls[c].pc = "process"
    /\ LET tempId == TempIdOf(calls[c].conversionId)
       IN  IF how = "spawn"
           THEN /\ tempDirs' = tempDirs \cup {tempId}
                /\ calls' = Set(c, [pc |-> "waiting", tempId |-> tempId])
           ELSE /\ tempDirs' = tempDirs \ {tempId}
                /\ calls' = [calls EXCEPT ![c] =
                       OnProcessRejected(routerVersion, [tempId |-> tempId] @@ @,
                           IF how = "fsError" THEN FsMessage ELSE ScriptMessage)]
    /\ UNCHANGED << routerVersion, dbAvailable, conversions, blobs, nanoCount, clock, linking >>

ProcessStart(c, how) == StartProcessing(c, how) /\ UNCHANGED worker

\* The rejection of executePythonConverter as processPDF and convert see it:
\* the catch of processPDF removes the temp directory and rethrows.
Rejected(c, message) ==
    /\ tempDirs' = tempDirs \ {calls[c].tempId}
    /\ calls' = [calls EXCEPT ![c] =
                    OnProcessRejected(routerVersion, [images |-> <<>>] @@ @, message)]

\* The close event settles the promise: a non-zero code rejects; otherwise
\* the files are read, which resolves or rejects.  scraped is the page
\* total the stdout handler has parsed by then.
WorkerClose(c, code, files, scraped) ==
    /\ calls[c].pc = "waiting"
    /\ IF code # 0
       THEN Rejected(c, ExitMessage(code))
       ELSE IF files.meta.kind = "invalid"
       THEN Rejected(c, ReadMessage)
       ELSE /\ tempDirs' = tempDirs
            /\ calls' = Set(c, [pc |-> "upload",
                                pyResult |-> Some(ReadResults(routerVersion, files, scraped))])
    /\ UNCHANGED << routerVersion, dbAvailable, conversions, blobs, nanoCount, clock, worker, linking >>

\* The error event (the process could not be spawned) settles the promise.
WorkerError(c) ==
    /\ calls[c].pc = "waiting"
    /\ Rejected(c, SpawnMessage)
    /\ UNCHANGED << routerVersion, dbAvailable, conversions, blobs, nanoCount, clock, worker, linking >>

\* The timer fires first: SIGTERM is sent and the promise rejected.
WorkerTimeout(c) ==
    /\ calls[c].pc = "waiting"
    /\ Rejected(c, TimeoutMessage)
    /\ UNCHANGED << routerVersion, dbAvailable, conversions, blobs, nanoCount, clock, worker, linking >>

\* The figure types uploadImagesToS3 uploads.
UploadedTypes(version) ==
    IF version = "routers.ts" THEN {"embedded_image"}
    ELSE {"embedded_image", "detected_figure"}

RECURSIVE UploadedImages(_, _, _, _)
\* The loop of uploadImagesToS3 over figures[i..]: a figure of another type
\* is skipped, and so is one whose storagePut throws (i \notin okSet).
UploadedImages(tempId, figures, i, okSet) ==
    IF i > Len(figures) THEN <<>>
    ELSE IF i \in okSet
    THEN << [name |-> figures[i].filename,
             url |-> Url(BlobKey(tempId, "images", figures[i].filename)),
             pageNumber |-> figures[i].page] >>
         \o UploadedImages(tempId, figures, i + 1, okSet)
    ELSE UploadedImages(tempId, figures, i + 1, okSet)

RECURSIVE PutAll(_, _)
PutAll(store, keys) ==
    IF keys = <<>> THEN store ELSE PutAll(storagePut(store, Head(keys)), Tail(keys))

\* processPDF line 70: uploadImagesToS3 under the id of processPDF.
UploadImages(c, okSet) ==
    /\ calls[c].pc = "upload"
    /\ LET figures == Val(calls[c].pyResult).figures
           wanted == { i \in 1..Len(figures) : figures[i].type \in UploadedTypes(routerVersion) }
           images == UploadedImages(calls[c].tempId, figures, 1, okSet)
       IN  /\ okSet \subseteq wanted
           /\ blobs' = PutAll(blobs, [i \in 1..Len(images) |->
                              BlobKey(calls[c].tempId, "images", images[i].name)])
           /\ calls' = Set(c, [pc |-> "procMarkdown", images |-> images])
    /\ UNCHANGED << routerVersion, dbAvailable, conversions, tempDirs, nanoCount, clock, worker, linking >>

\* processPDF lines 73-90: the Markdown stored under the id of processPDF,
\* the temp directory removed, the result returned to convert.
ProcMarkdown(c, ok) ==
    /\ calls[c].pc = "procMarkdown"
    /\ IF ok
       THEN LET py == Val(calls[c].pyResult)
            IN  /\ blobs' = storagePut(blobs, BlobKey(calls[c].tempId, "output.md", <<>>))
                /\ tempDirs' = tempDirs \ {calls[c].tempId}
                /\ calls' = Set(c, [pc |-> "storeMarkdown", pyResult |-> Null, images |-> <<>>,
                          result |-> Some([markdown |-> py.markdown,
                                           images |-> calls[c].images,
                                           totalPages |-> py.totalPages,
                                           figuresExtracted |-> py.figuresExtracted,
                                           conversionMethod |-> py.conversionMethod,
                                           figureQuestionLinks |-> py.figureQuestionLinks])])
       ELSE /\ blobs' = blobs
            /\ Rejected(c, FsMessage)
    /\ UNCHANGED << routerVersion, dbAvailable, conversions, nanoCount, clock, worker, linking >>

\* ------------------------------------------------------------------------
\* convert, after processPDF
\* ------------------------------------------------------------------------
\* The final update reached without the Markdown having been stored.
SkipStoreMarkdown(c, ok) ==
    /\ calls[c].pc = "storeMarkdown"
    /\ calls' = Set(c, [pc |-> "updateCompleted"])
    /\ UNCHANGED << routerVersion, dbAvailable, conversions, blobs, tempDirs,
                    nanoCount, clock, worker, linking >>

\* Lines 70-75: storagePut of the Markdown under the conversion id.
StoreMarkdown(c, ok) ==
    /\ calls[c].pc = "storeMarkdown"
    /\ IF ok
       THEN /\ blobs' = storagePut(blobs, BlobKey(calls[c].conversionId, "output.md", <<>>))
            /\ calls' = Set(c, [pc |-> "updateCompleted"])
       ELSE /\ blobs' = blobs
            /\ calls' = Set(c, [pc |-> "catch", error |-> Some(FsMessage)])
    /\ UNCHANGED << routerVersion, dbAvailable, conversions, tempDirs, nanoCount, clock, worker, linking >>

\* A final update that leaves conversionMethod out.
CompletedUpdatesWithoutMethod(conversionId, result, now) ==
    LET markdownKey == BlobKey(conversionId, "output.md", <<>>)
    IN  [status |-> "completed", markdownKey |-> Some(markdownKey),
         markdownUrl |-> Some(Url(markdownKey)),
         markdownContent |-> Some(result.markdown),
         totalPages |-> Some(result.totalPages),
         figuresExtracted |-> Some(result.figuresExtracted),
         images |-> Some(result.images),
         figureQuestionLinks |-> Some(result.figureQuestionLinks),
         completedAt |-> Some(now)]

\* The columns the final update sets (lines 78-89).
CompletedUpdates(conversionId, result, now) ==
    LET markdownKey == BlobKey(conversionId, "output.md", <<>>)
    IN  [status |-> "completed", markdownKey |-> Some(markdownKey),
         markdownUrl |-> Some(Url(markdownKey)),
         markdownContent |-> Some(result.markdown),
         totalPages |-> Some(result.totalPages),
         figuresExtracted |-> Some(result.figuresExtracted),
         conversionMethod |-> Some(result.conversionMethod),
         images |-> Some(result.images),
         figureQuestionLinks |-> Some(result.figureQuestionLinks),
         completedAt |-> Some(now)]

\* Lines 78-99: the final update, then the payload is returned.
UpdateCompleted(c) ==
    /\ calls[c].pc = "updateCompleted"
    /\ conversions' = updateConversion(dbAvailable, conversions, calls[c].conversionId,
                          CompletedUpdates(calls[c].conversionId, Val(calls[c].result), clock),
                          clock)
    /\ calls' = Set(c, [pc |-> "returned"])
    /\ UNCHANGED << routerVersion, dbAvailable, blobs, tempDirs, nanoCount, clock, worker, linking >>

\* A catch block that records the message and forgets the status.
FailedUpdatesWithoutStatus(message) ==
    [errorMessage |-> Some(message)]

\* The columns the catch block sets (lines 102-105).
FailedUpdates(message) ==
    [status |-> "failed", errorMessage |-> Some(message)]

\* Lines 100-107: the record is marked failed and the error thrown again.
CatchBlock(c) ==
    /\ calls[c].pc = "catch"
    /\ conversions' = updateConversion(dbAvailable, conversions, calls[c].conversionId,
                          FailedUpdates(Val(calls[c].error)), clock)
    /\ calls' = Set(c, [pc |-> "thrown", result |-> Null])
    /\ UNCHANGED << routerVersion, dbAvailable, blobs, tempDirs, nanoCount, clock, worker, linking >>

\* ------------------------------------------------------------------------
\* get, history, delete, reanalyzeLinks
\* ------------------------------------------------------------------------
\* pdfRouter.get: the response to a request for conversionId
get(available, table, conversionId) ==
    LET conversion == getConversionById(available, table, conversionId)
    IN  IF IsNull(conversion)
        THEN [outcome |-> "Conversion not found"]
        ELSE [outcome |-> "ok", value |-> Val(conversion)]

\* A get request: it reads and changes nothing.
Get(conversionId) ==
    /\ get(dbAvailable, conversions, conversionId).outcome \in {"ok", "Conversion not found"}
    /\ UNCHANGED vars

\* The inputs of history: nothing at all, or an object whose limit and
\* offset can each be left out.
Limits == {1, MaxLimit}
Offsets == {0, 1}
HistoryInputs ==
    {Null} \cup { Some([limit |-> l, offset |-> o]) :
                     l \in {Null} \cup { Some(x) : x \in Limits },
                     o \in {Null} \cup { Some(x) : x \in Offsets } }

\* The history requests clients send in the model.
SentHistoryInputs ==
    { Null, Some([limit |-> Some(1), offset |-> Null]),
      Some([limit |-> Some(1), offset |-> Some(1)]) }

\* The ids clients ask about: those convert has handed out, and one more.
RequestIds ==
    { calls[c].conversionId : c \in { d \in CallIds : calls[d].pc # "idle" } }
        \cup { nanoid(nanoCount) }

\* input?.limit ?? 20 and input?.offset ?? 0, after the zod defaults
LimitOf(input) ==
    IF IsNull(input) \/ IsNull(Val(input).limit) THEN DefaultLimit ELSE Val(Val(input).limit)
OffsetOf(input) ==
    IF IsNull(input) \/ IsNull(Val(input).offset) THEN DefaultOffset ELSE Val(Val(input).offset)

\* hasMore with the comparison off by one.
HasMoreInclusive(offset, returned, total) == offset + returned <= total

\* hasMore of the history response
HasMore(offset, returned, total) == offset + returned < total

\* pdfRouter.history: the responses it may give
history(available, table, user, input) ==
    LET limit == LimitOf(input)
        offset == OffsetOf(input)
        total == countUserConversions(available, table, user)
    IN  { [conversions |-> rows, total |-> total,
           hasMore |-> HasMore(offset, Len(rows), total)] :
              rows \in getAllConversions(available, table, limit, offset) }

\* A history request: it reads and changes nothing.
History(user, input) ==
    /\ history(dbAvailable, conversions, user, input) # {}
    /\ UNCHANGED vars

\* An ownership check that lets only the owner through.
OwnerOnly(user, conversion) == conversion.userId # user

\* The ownership check of delete (line 156): TRUE when the caller may not.
NotAuthorized(user, conversion) ==
    user # NoUser /\ conversion.userId # NoUser /\ conversion.userId # user

\* pdfRouter.delete: the response, and the table it leaves
delete(available, table, user, conversionId) ==
    LET conversion == getConversionById(available, table, conversionId)
    IN  IF IsNull(conversion)
        THEN [outcome |-> "Conversion not found", table |-> table]
        ELSE IF NotAuthorized(user, Val(conversion))
        THEN [outcome |-> "Not authorized to delete this conversion", table |-> table]
        ELSE [outcome |-> "ok", success |-> TRUE,
              table |-> deleteConversion(available, table, conversionId)]

Delete(user, conversionId) ==
    /\ conversions' = delete(dbAvailable, conversions, user, conversionId).table
    /\ UNCHANGED << routerVersion, dbAvailable, blobs, tempDirs, nanoCount, clock, calls, worker, linking >>

\* The linker of the other generation, as a wrong import would give.
LinkerOfOtherRouter(version, markdown, figures) ==
    IF version = "routers.ts" THEN linkFiguresToQuestionsByOffset(markdown, figures)
    ELSE linkFiguresToQuestions(markdown, figures)

\* The linker the deployed router imports from ./pdfProcessor.
Linker(version, markdown, figures) ==
    IF version = "routers.ts" THEN linkFiguresToQuestions(markdown, figures)
    ELSE linkFiguresToQuestionsByOffset(markdown, figures)

\* A completeness test that looks for NULL only.
IncompleteWhenNull(conversion) ==
    IsNull(conversion.markdownContent) \/ IsNull(conversion.images)

\* !conversion.markdownContent || !conversion.images (line 175): NULL and
\* the empty string are falsy, an empty array is not.
IncompleteData(conversion) ==
    \/ IsNull(conversion.markdownContent)
    \/ Val(conversion.markdownContent) = <<>>
    \/ IsNull(conversion.images)

\* pdfRouter.reanalyzeLinks: the response, and the table it leaves.  An
\* empty markdownContent is falsy.
reanalyzeLinks(version, available, table, conversionId, now) ==
    LET conversion == getConversionById(available, table, conversionId)
    IN  IF IsNull(conversion)
        THEN [outcome |-> "Conversion not found", table |-> table]
        ELSE IF IncompleteData(Val(conversion))
        THEN [outcome |-> "Conversion data incomplete", table |-> table]
        ELSE LET images == Val(Val(conversion).images)
                 figures == [i \in 1..Len(images) |->
                                [name |-> images[i].name,
                                 pageNumber |-> images[i].pageNumber]]
                 newLinks == Linker(version, Val(Val(conversion).markdownContent), figures)
             IN  [outcome |-> "ok", figureQuestionLinks |-> newLinks,
                  table |-> updateConversion(available, table, conversionId,
                                [figureQuestionLinks |-> Some(newLinks)], now)]

ReanalyzeLinks(conversionId) ==
    /\ conversions' = reanalyzeLinks(routerVersion, dbAvailable, conversions, conversionId, clock).table
    /\ UNCHANGED << routerVersion, dbAvailable, blobs, tempDirs, nanoCount, clock, calls, worker, linking >>

Next ==
    \/ \E c \in CallIds, user \in ConvertCallers, filename \in Filenames, now \in 0..MaxClock :
           ConvertStart(c, user, filename, now)
    \/ \E c \in CallIds, ok \in BOOLEAN : StoreInput(c, ok)
    \/ \E c \in CallIds : UpdatePdf(c)
    \/ \E c \in CallIds, how \in {"spawn", "fsError", "noScript"} : ProcessStart(c, how)
    \/ \E c \in CallIds, code \in ExitCodes, files \in WorkerOutputs, scraped \in ScrapedTotals :
           WorkerClose(c, code, files, scraped)
    \/ \E c \in CallIds : WorkerError(c)
    \/ \E c \in CallIds : WorkerTimeout(c)
    \/ \E c \in CallIds, okSet \in SUBSET (1..2) : UploadImages(c, okSet)
    \/ \E c \in CallIds, ok \in BOOLEAN : ProcMarkdown(c, ok)
    \/ \E c \in CallIds, ok \in BOOLEAN : StoreMarkdown(c, ok)
    \/ \E c \in CallIds : UpdateCompleted(c)
    \/ \E c \in CallIds : CatchBlock(c)
    \/ \E id \in RequestIds : Get(id)
    \/ \E user \in ConvertCallers, input \in SentHistoryInputs : History(user, input)
    \/ \E user \in Callers, id \in RequestIds : Delete(user, id)
    \/ \E id \in RequestIds : ReanalyzeLinks(id)

Spec == Init /\ [][Next]_vars

\* The steps of convert call c that are its own to take: every await of the
\* handler that Node resumes once the awaited storage or database call is over.
ConvertSteps(c) ==
    \/ \E ok \in BOOLEAN : StoreInput(c, ok)
    \/ UpdatePdf(c)
    \/ \E how \in {"spawn", "noScript", "fsError"} : ProcessStart(c, how)
    \/ \E okSet \in SUBSET (1..2) : UploadImages(c, okSet)
    \/ \E ok \in BOOLEAN : ProcMarkdown(c, ok)
    \/ \E ok \in BOOLEAN : StoreMarkdown(c, ok)
    \/ UpdateCompleted(c)
    \/ CatchBlock(c)

\* The events that settle the worker promise of call c.
WorkerSettles(c) ==
    \/ \E code \in ExitCodes, files \in WorkerOutputs, scraped \in ScrapedTotals :
           WorkerClose(c, code, files, scraped)
    \/ WorkerError(c)
    \/ WorkerTimeout(c)

\* The event loop resumes every pending await, and the worker exits or the
\* timer armed at spawn fires.
SpecFair ==
    Spec /\ \A c \in CallIds : WF_vars(ConvertSteps(c)) /\ WF_vars(WorkerSettles(c))

\* ------------------------------------------------------------------------
\* One worker invocation, event by event (executePythonConverter, lines
\* 122-305): the process, the 600 s timer and the promise of the first call
\* ------------------------------------------------------------------------
WorkerCall == 1

\* spawn (line 154) and setTimeout (line 170) at the end of the synchronous
\* part of processPDF; no process and no timer when the fs calls throw or the
\* script is not found.
Spawn(how) ==
    /\ StartProcessing(WorkerCall, how)
    /\ worker' = IF how = "spawn"
                 THEN [NoProcess EXCEPT !.proc = "running", !.timer = "armed"]
                 ELSE worker

\* stdout data handler (lines 175-202): the page total scraped from
\* "Processing page i/n", whether or not the promise is settled.
ProcStdout(total) ==
    /\ worker.proc = "running"
    /\ worker.scraped # total
    /\ worker' = [worker EXCEPT !.scraped = total]
    /\ UNCHANGED << routerVersion, dbAvailable, conversions, blobs, tempDirs,
                    nanoCount, clock, calls, linking >>

\* The operating-system process ends, by itself or by the signal, leaving
\* its files; its close event is delivered later.
ProcExit(code, files) ==
    /\ worker.proc = "running"
    /\ worker' = [worker EXCEPT !.proc = "exited", !.code = code, !.files = files]
    /\ UNCHANGED << routerVersion, dbAvailable, conversions, blobs, tempDirs,
                    nanoCount, clock, calls, linking >>

\* A reject that is carried out whatever the state of the promise.
RejectAgain(message) == Rejected(WorkerCall, message)

\* A promise settles once: reject and resolve after that are ignored.
SettleRejected(message) ==
    IF worker.settled THEN UNCHANGED << tempDirs, calls >>
    ELSE Rejected(WorkerCall, message)

\* on("close") (lines 210-298): clearTimeout, then reject on a non-zero code,
\* else read the output files and resolve, or reject when reading throws.
ProcClose ==
    /\ worker.proc = "exited"
    /\ worker' = [worker EXCEPT !.proc = "closed", !.settled = TRUE,
                      !.timer = IF @ = "armed" THEN "cleared" ELSE @]
    /\ IF worker.code # 0 THEN SettleRejected(ExitMessage(worker.code))
       ELSE IF worker.files.meta.kind = "invalid" THEN SettleRejected(ReadMessage)
       ELSE IF worker.settled THEN UNCHANGED << tempDirs, calls >>
       ELSE /\ tempDirs' = tempDirs
            /\ calls' = Set(WorkerCall,
                   [pc |-> "upload",
                    pyResult |-> Some(ReadResults(routerVersion, worker.files,
                                                  worker.scraped))])
    /\ UNCHANGED << routerVersion, dbAvailable, conversions, blobs, nanoCount, clock, linking >>

\* on("error") (lines 300-303): the process could not be spawned.
ProcError ==
    /\ worker.proc = "running"
    /\ worker.scraped = 0
    /\ ~worker.signalled
    /\ worker' = [worker EXCEPT !.proc = "failed", !.settled = TRUE,
                      !.timer = IF @ = "armed" THEN "cleared" ELSE @]
    /\ SettleRejected(SpawnMessage)
    /\ UNCHANGED << routerVersion, dbAvailable, conversions, blobs, nanoCount, clock, linking >>

\* The timer callback (lines 170-173): kill('SIGTERM') and reject.  The
\* rejection resumes processPDF, whose catch removes the directory, without
\* waiting for the process to end.
ProcTimeout ==
    /\ worker.timer = "armed"
    /\ worker' = [worker EXCEPT !.timer = "fired", !.signalled = TRUE, !.settled = TRUE]
    /\ SettleRejected(TimeoutMessage)
    /\ UNCHANGED << routerVersion, dbAvailable, conversions, blobs, nanoCount, clock, linking >>

\* A worker that is still running writes its next output file: it was
\* started with -o <tempDir>/output (line 157) and creates the directories
\* of the path it writes to when they are missing.
WorkerWrites ==
    /\ worker.proc = "running"
    /\ calls[WorkerCall].tempId \notin tempDirs
    /\ tempDirs' = tempDirs \cup {calls[WorkerCall].tempId}
    /\ UNCHANGED << routerVersion, dbAvailable, conversions, blobs, nanoCount,
                    clock, calls, worker, linking >>

NextWorker ==
    \/ \E user \in ConvertCallers, filename \in Filenames, now \in 0..MaxClock :
           ConvertStart(WorkerCall, user, filename, now)
    \/ \E ok \in BOOLEAN : StoreInput(WorkerCall, ok)
    \/ UpdatePdf(WorkerCall)
    \/ \E how \in {"spawn", "fsError", "noScript"} : Spawn(how)
    \/ \E total \in ScrapedTotals : ProcStdout(total)
    \/ \E code \in ExitCodes, files \in ExitOutputs : ProcExit(code, files)
    \/ ProcClose
    \/ ProcError
    \/ ProcTimeout
    \/ WorkerWrites
    \/ \E okSet \in SUBSET (1..2) : UploadImages(WorkerCall, okSet)
    \/ \E ok \in BOOLEAN : ProcMarkdown(WorkerCall, ok)
    \/ \E ok \in BOOLEAN : StoreMarkdown(WorkerCall, ok)
    \/ UpdateCompleted(WorkerCall)
    \/ CatchBlock(WorkerCall)

SpecWorker == Init /\ [][NextWorker]_vars

\* ------------------------------------------------------------------------
\* One call of the exported linkFiguresToQuestions on its own
\* ------------------------------------------------------------------------
MaxPieces == 6
MaxOffsetPieces == 5
MaxFigures == 2

\* All sequences over alphabet of length 0..n.
SeqsUpTo(alphabet, n) == UNION { [1..k -> alphabet] : k \in 0..n }

Figure(file, page) == [name |-> <<file>>, pageNumber |-> page]

\* The figures argument: file names may repeat, pages are 0, 1 or 2 away
\* from the pages of the Markdown.
FigureLists ==
    SeqsUpTo({Figure("f1.png", 3), Figure("f1.png", 5), Figure("f2.png", 3)},
             MaxFigures)

\* Markdown as the page-distance linker reads it: page headings, question
\* markers and text with a figure keyword.
PageMarkdowns ==
    SeqsUpTo({Page(3), Page(4), Question(7), Question(8), Text(TRUE, 20)}, MaxPieces)

\* Markdown as the offset linker reads it: question markers, image embeds
\* and text that moves them apart.
OffsetMarkdowns ==
    SeqsUpTo({Question(7), Question(8), Text(FALSE, 2497), Text(FALSE, 2119),
              Img(<<"f1.png">>), Img(<<"f2.png">>)}, MaxOffsetPieces)

LinkerInputs(version) ==
    [markdown : IF version = "routers.ts" THEN PageMarkdowns ELSE OffsetMarkdowns,
     figures : FigureLists, links : {<<>>}, done : {FALSE}]

InitLinker == ServerStarts(TRUE) /\ linking \in LinkerInputs(routerVersion)

\* linkFiguresToQuestions(markdown, figures) returns.
Link ==
    /\ ~linking.done
    /\ linking' = [linking EXCEPT
                       !.links = Linker(routerVersion, linking.markdown, linking.figures),
                       !.done = TRUE]
    /\ UNCHANGED << routerVersion, dbAvailable, conversions, blobs, tempDirs,
                    nanoCount, clock, calls, worker >>

NextLinker == Link

SpecLinker == InitLinker /\ [][NextLinker]_vars

\* ------------------------------------------------------------------------
\* What is observed of a convert call and of its record
\* ------------------------------------------------------------------------
Started(c) == calls[c].pc # "idle"
\* convert has returned its payload or thrown
Over(c) == calls[c].pc \in {"returned", "thrown"}
HasRecord(c) == Started(c) /\ calls[c].conversionId \in DOMAIN conversions
RecordOf(c) == conversions[calls[c].conversionId]
Terminal == {"completed", "failed"}

\* ------------------------------------------------------------------------
\* Properties
\* ------------------------------------------------------------------------
\* C1 (as stated): once convert has returned or thrown, the record of a
\* conversion whose worker step failed has status failed and a non-empty
\* errorMessage.
C1_WorkerFailureEndsFailed ==
    \A c \in CallIds :
        (Over(c) /\ calls[c].workerFailed /\ HasRecord(c))
            => /\ RecordOf(c).status = "failed"
               /\ ~IsNull(RecordOf(c).errorMessage)
               /\ Val(RecordOf(c).errorMessage) # ""

\* C2 (as stated): a convert call whose processPDF failed never returns a
\* payload; it throws an error.
C2_WorkerFailureFailsCall ==
    \A c \in CallIds :
        (Over(c) /\ calls[c].workerFailed)
            => calls[c].pc = "thrown" /\ ~IsNull(calls[c].error)

\* The payload call c returned is the one the test of convert expects.
SimulatedPayload(c) ==
    LET payload == Payload(calls[c].conversionId, Val(calls[c].result))
    IN  /\ payload.conversionId = calls[c].conversionId
        /\ MarkdownContains(payload.markdown, StripPdfSuffix(calls[c].filename))
        /\ payload.totalPages = 12
        /\ payload.figuresExtracted = 8
        /\ payload.conversionMethod = "Tesseract OCR"
        /\ Len(payload.images) > 0
        /\ \A i \in 1..Len(payload.images) :
               {"name", "url", "pageNumber"} \subseteq DOMAIN payload.images[i]
        /\ "figureQuestionLinks" \in DOMAIN payload

C4_StatusMovesOnce ==
    [][ /\ \A id \in DOMAIN conversions \cap DOMAIN conversions' :
              \/ conversions'[id].status = conversions[id].status
              \/ /\ conversions[id].status = "processing"
                 /\ conversions'[id].status \in Terminal
        /\ \A id \in DOMAIN conversions' \ DOMAIN conversions :
              conversions'[id].status = "processing" ]_vars

\* C4 witness: reanalyzeLinks has rewritten the links of a completed record,
\* which is still completed.
C4_Witness ==
    \E c \in CallIds :
        /\ calls[c].pc = "returned"
        /\ HasRecord(c)
        /\ RecordOf(c).status = "completed"
        /\ RecordOf(c).figureQuestionLinks # Some(Val(calls[c].result).figureQuestionLinks)

ResultColumns ==
    {"markdownContent", "images", "totalPages", "figuresExtracted", "conversionMethod"}
Populated(row, column) == ~IsNull(row[column])

\* C6: in every record, each of markdownContent, images, totalPages,
\* figuresExtracted and conversionMethod is populated exactly when the status
\* is completed, and errorMessage is populated exactly when it is failed.
C6_FieldsFollowStatus ==
    \A id \in DOMAIN conversions :
        /\ \A column \in ResultColumns :
               Populated(conversions[id], column) <=> conversions[id].status = "completed"
        /\ Populated(conversions[id], "errorMessage") <=> conversions[id].status = "failed"

\* C6 witness: the table holds a completed record with its result columns
\* and a failed record with its message.
C6_Witness ==
    \E id, other \in DOMAIN conversions :
        /\ conversions[id].status = "completed"
        /\ \A column \in ResultColumns : Populated(conversions[id], column)
        /\ conversions[other].status = "failed"
        /\ Populated(conversions[other], "errorMessage")

\* C7: no two convert calls that inserted a record or returned a payload
\* have the same conversionId.
C7_UniqueConversionIds ==
    \A c, d \in CallIds :
        (c # d /\ (calls[c].persisted \/ calls[c].pc = "returned")
               /\ (calls[d].persisted \/ calls[d].pc = "returned"))
            => calls[c].conversionId # calls[d].conversionId

\* C7 witness: two calls with the same filename have both returned.
C7_Witness ==
    \E c, d \in CallIds :
        /\ c # d
        /\ calls[c].pc = "returned" /\ calls[d].pc = "returned"
        /\ calls[c].filename = calls[d].filename
        /\ calls[c].persisted /\ calls[d].persisted

\* C8: get answers with the row stored under the id, and with "Conversion
\* not found" when there is none; at the step in which convert returns or
\* throws, get on its id (the record not having been deleted meanwhile)
\* gives the submitted filename and the final status, and for a returned
\* payload the same Markdown, images and links.
C8_GetRoundTrip ==
    /\ [](\A id \in RequestIds :
            LET response == get(dbAvailable, conversions, id)
            IN  IF id \in DOMAIN conversions
                THEN /\ response.outcome = "ok"
                     /\ response.value = conversions[id]
                     /\ response.value.conversionId = id
                ELSE response.outcome = "Conversion not found")
    /\ [][\A c \in CallIds :
            (~Over(c) /\ calls'[c].pc \in {"returned", "thrown"}
                /\ calls'[c].conversionId \in DOMAIN conversions'
                /\ calls'[c].persisted)
            => LET response == get(dbAvailable', conversions', calls'[c].conversionId)
               IN  /\ response.outcome = "ok"
                   /\ response.value.filename = calls'[c].filename
                   /\ response.value.status =
                          (IF calls'[c].pc = "returned" THEN "completed" ELSE "failed")
                   /\ calls'[c].pc = "returned" =>
                        LET payload == Payload(calls'[c].conversionId, Val(calls'[c].result))
                        IN  /\ response.value.markdownContent = Some(payload.markdown)
                            /\ response.value.images = Some(payload.images)
                            /\ response.value.figureQuestionLinks =
                                   Some(payload.figureQuestionLinks)]_vars

\* C8 witness: a convert has returned and get on its id gives the Markdown
\* of its payload, while get on the id not yet handed out finds nothing.
C8_Witness ==
    \E c \in CallIds :
        /\ calls[c].pc = "returned"
        /\ HasRecord(c)
        /\ get(dbAvailable, conversions, calls[c].conversionId).value.markdownContent
               = Some(Val(calls[c].result).markdown)
        /\ get(dbAvailable, conversions, nanoid(nanoCount)).outcome = "Conversion not found"

\* What C9 asks of one history response, apart from the order of its rows.
HistoryShape(input, response) ==
    /\ DOMAIN response = {"conversions", "total", "hasMore"}
    /\ LimitOf(input) \in 1..MaxLimit
    /\ OffsetOf(input) >= 0
    /\ IsNull(input) => LimitOf(input) = 20 /\ OffsetOf(input) = 0
    /\ Len(response.conversions) <= LimitOf(input)
    /\ response.hasMore =
           (OffsetOf(input) + Len(response.conversions) < response.total)

\* C9 (as stated): every history response has hasMore equal to
\* offset + len(returned) < total, and its rows are strictly ordered by
\* creation time, newest first.
C9_HistoryStrictlyOrdered ==
    \A user \in Callers, input \in HistoryInputs :
        \A response \in history(dbAvailable, conversions, user, input) :
            /\ HistoryShape(input, response)
            /\ \A i, j \in 1..Len(response.conversions) :
                   i < j => response.conversions[i].createdAt
                                > response.conversions[j].createdAt

\* C9 (amended): every history response has hasMore equal to
\* offset + len(returned) < total, and no row comes before a row created
\* later; rows created in the same second come in either order.
C9_HistoryOrdered ==
    \A user \in Callers, input \in HistoryInputs :
        \A response \in history(dbAvailable, conversions, user, input) :
            /\ HistoryShape(input, response)
            /\ \A i, j \in 1..Len(response.conversions) :
                   i < j => response.conversions[i].createdAt
                                >= response.conversions[j].createdAt

\* C9 witness: two records created at different times, a page of one row
\* with hasMore true and the last page with hasMore false.
C9_Witness ==
    /\ \E id, other \in DOMAIN conversions :
           conversions[id].createdAt > conversions[other].createdAt
    /\ \E response \in history(dbAvailable, conversions, NoUser,
                               Some([limit |-> Some(1), offset |-> Null])) :
           response.hasMore /\ Len(response.conversions) = 1
    /\ \E response \in history(dbAvailable, conversions, NoUser,
                               Some([limit |-> Some(1), offset |-> Some(1)])) :
           ~response.hasMore /\ Len(response.conversions) = 1

\* C10: delete answers "Conversion not found" for an absent id; for a record
\* with an owner and a caller signed in as somebody else it answers "Not
\* authorized" and leaves the table as it is; in every other case it answers
\* success, the record is gone, every other record is untouched and get
\* then finds nothing; and a record that is gone never comes back.
C10_DeleteOutcomes ==
    /\ [](\A user \in Callers, id \in RequestIds :
            LET response == delete(dbAvailable, conversions, user, id)
            IN  IF id \notin DOMAIN conversions
                THEN /\ response.outcome = "Conversion not found"
                     /\ response.table = conversions
                ELSE IF /\ conversions[id].userId \in Users
                        /\ user \in Users
                        /\ user # conversions[id].userId
                THEN /\ response.outcome = "Not authorized to delete this conversion"
                     /\ response.table = conversions
                ELSE /\ response.outcome = "ok"
                     /\ response.success = TRUE
                     /\ DOMAIN response.table = DOMAIN conversions \ {id}
                     /\ \A other \in DOMAIN response.table :
                            response.table[other] = conversions[other]
                     /\ get(dbAvailable, response.table, id).outcome
                            = "Conversion not found")
    /\ [][\A c \in CallIds :
            (calls[c].persisted /\ ~HasRecord(c))
                => calls'[c].conversionId \notin DOMAIN conversions']_vars

\* C10 witness: the record of one call has been deleted, and the table holds
\* a record of user 1, which user 2 may not delete and user 1 may.
C10_Witness ==
    /\ \E c \in CallIds : calls[c].persisted /\ ~HasRecord(c)
    /\ \E id \in DOMAIN conversions :
           /\ conversions[id].userId = 1
           /\ delete(dbAvailable, conversions, 2, id).outcome
                  = "Not authorized to delete this conversion"
           /\ delete(dbAvailable, conversions, 1, id).outcome = "ok"
           /\ delete(dbAvailable, conversions, NoUser, id).outcome = "ok"

\* What C11 asks of reanalyzeLinks on id when incomplete says which records
\* lack data: "Conversion not found" exactly for an absent id, "Conversion
\* data incomplete" exactly for a present record lacking data, and the table
\* untouched in both cases.
ReanalyzeErrors(id, incomplete) ==
    LET response == reanalyzeLinks(routerVersion, dbAvailable, conversions, id, clock)
    IN  /\ response.outcome = "Conversion not found" <=> id \notin DOMAIN conversions
        /\ response.outcome = "Conversion data incomplete" <=>
               (id \in DOMAIN conversions /\ incomplete)
        /\ response.outcome # "ok" => response.table = conversions

\* C11 (as stated): reanalyzeLinks signals NotFound exactly for an absent
\* id and IncompleteData exactly for a record whose markdownContent or
\* images is NULL; in both cases the table is unchanged.
C11_IncompleteExactlyWhenNull ==
    \A id \in RequestIds :
        ReanalyzeErrors(id,
            id \in DOMAIN conversions /\
                (IsNull(conversions[id].markdownContent) \/ IsNull(conversions[id].images)))

\* C11 (amended): reanalyzeLinks signals NotFound exactly for an absent id
\* and IncompleteData exactly for a record whose markdownContent is NULL or
\* the empty text, or whose images is NULL; in both cases the table is
\* unchanged.
C11_IncompleteExactlyWhenFalsy ==
    \A id \in RequestIds :
        ReanalyzeErrors(id,
            id \in DOMAIN conversions /\
                (\/ IsNull(conversions[id].markdownContent)
                 \/ conversions[id].markdownContent = Some(<<>>)
                 \/ IsNull(conversions[id].images)))

\* C11 witness: the table holds a record still processing and a completed
\* record with an empty Markdown text; reanalyzeLinks refuses both as
\* incomplete and does not find the id not handed out yet.
C11_Witness ==
    /\ \E id, other \in DOMAIN conversions :
          /\ conversions[id].status = "processing"
          /\ conversions[other].markdownContent = Some(<<>>)
          /\ \A x \in {id, other} :
                 reanalyzeLinks(routerVersion, dbAvailable, conversions, x, clock).outcome
                     = "Conversion data incomplete"
    /\ reanalyzeLinks(routerVersion, dbAvailable, conversions, nanoid(nanoCount), clock).outcome
           = "Conversion not found"

\* The links the linker of the deployed generation gives for the Markdown
\* and the images stored in row.
RecomputedLinks(row) ==
    LET images == Val(row.images)
        figures == [i \in 1..Len(images) |->
                       [name |-> images[i].name, pageNumber |-> images[i].pageNumber]]
    IN  IF routerVersion = "routers.ts"
        THEN linkFiguresToQuestions(Val(row.markdownContent), figures)
        ELSE linkFiguresToQuestionsByOffset(Val(row.markdownContent), figures)

\* What C12 asks of reanalyzeLinks on the record of id, which has Markdown
\* and images: the links are recomputed from the stored data, stored in
\* place of the old list and returned, and outside the columns of touched
\* nothing changes in the table.
ReanalyzeFrame(id, touched) ==
    LET response == reanalyzeLinks(routerVersion, dbAvailable, conversions, id, clock)
    IN  /\ response.outcome = "ok"
        /\ response.figureQuestionLinks = RecomputedLinks(conversions[id])
        /\ DOMAIN response.table = DOMAIN conversions
        /\ response.table[id].figureQuestionLinks = Some(response.figureQuestionLinks)
        /\ \A column \in DOMAIN conversions[id] \ touched :
               response.table[id][column] = conversions[id][column]
        /\ \A other \in DOMAIN conversions \ {id} :
               response.table[other] = conversions[other]

\* C12 (as stated): reanalyzeLinks on a record with Markdown and images
\* stores and returns the recomputed links and changes no other column of
\* the record and no other record.
C12_ReanalyzeChangesLinksOnly ==
    \A id \in DOMAIN conversions :
        ~IncompleteData(conversions[id]) => ReanalyzeFrame(id, {"figureQuestionLinks"})

\* C12 (amended): reanalyzeLinks on a record with Markdown and images stores
\* and returns the recomputed links and changes no other column of the
\* record but its last-update timestamp, and no other record.
C12_ReanalyzeChangesLinksAndUpdatedAt ==
    \A id \in DOMAIN conversions :
        ~IncompleteData(conversions[id])
            => ReanalyzeFrame(id, {"figureQuestionLinks", "updatedAt"})

\* C12 witness: a record completed at one time holds the recomputed links,
\* which are not those its worker supplied, and was last updated later.
C12_Witness ==
    \E c \in CallIds :
        /\ calls[c].pc = "returned"
        /\ HasRecord(c)
        /\ ~IncompleteData(RecordOf(c))
        /\ RecordOf(c).figureQuestionLinks = Some(RecomputedLinks(RecordOf(c)))
        /\ RecordOf(c).figureQuestionLinks # Some(Val(calls[c].result).figureQuestionLinks)
        /\ RecordOf(c).updatedAt > Val(RecordOf(c).completedAt)

\* C13 (as stated): once convert is over, the record of a conversion whose
\* worker ran into the timeout is failed and its errorMessage is the
\* "timed out" message.
C13_TimeoutEndsFailed ==
    (Over(WorkerCall) /\ worker.timer = "fired" /\ HasRecord(WorkerCall))
        => /\ RecordOf(WorkerCall).status = "failed"
           /\ RecordOf(WorkerCall).errorMessage = Some(TimeoutMessage)


\* processPDF of the first call has returned or thrown.
ProcessPdfOver ==
    /\ calls[WorkerCall].tempId # 0
    /\ calls[WorkerCall].pc \in {"storeMarkdown", "updateCompleted", "returned",
                                 "catch", "thrown"}

PageLinked == linking.done /\ routerVersion = "routers.ts"

\* The "## Page P" block the piece at i lies in: the last heading before i.
PageOf(md, i) ==
    LET heads == { j \in 1..(i - 1) : md[j].t = "page" }
    IN  IF heads = {} THEN Null
        ELSE Some(md[CHOOSE j \in heads : \A k \in heads : k <= j].n)

\* The bold-numbered questions inside a page block whose text, up to the
\* next marker or the end of the block, contains a keyword.
ReferringQuestions(md) ==
    { i \in 1..Len(md) :
        /\ md[i].t = "q"
        /\ ~IsNull(PageOf(md, i))
        /\ \E j \in (i + 1)..Len(md) :
               /\ md[j].kw
               /\ \A k \in (i + 1)..(j - 1) : md[k].t \notin {"q", "page"} }

PageConfidence(figure, page) == IF figure.pageNumber = page THEN 95 ELSE 75

\* C15: the page-distance linker links figure f to question q exactly when
\* q is a bold-numbered question of a "## Page P" block whose text contains a
\* keyword and f is a supplied figure at most one page away from P, with
\* confidence 0.95 on the same page and 0.75 on an adjacent one (the higher
\* one where the pair arises twice).
C15_PolicyALinks ==
    PageLinked =>
        LET md == linking.markdown
            figures == linking.figures
            links == linking.links
        IN  /\ \A l \in 1..Len(links) :
                   \E f \in 1..Len(figures), i \in ReferringQuestions(md) :
                       /\ links[l].figureId = figures[f].name
                       /\ links[l].pageNumber = figures[f].pageNumber
                       /\ links[l].questionNumber = md[i].n
                       /\ Abs(figures[f].pageNumber - Val(PageOf(md, i))) <= 1
                       /\ links[l].confidence =
                              PageConfidence(figures[f], Val(PageOf(md, i)))
            /\ \A f \in 1..Len(figures), i \in ReferringQuestions(md) :
                   Abs(figures[f].pageNumber - Val(PageOf(md, i))) <= 1
                       => \E l \in 1..Len(links) :
                              /\ links[l].figureId = figures[f].name
                              /\ links[l].questionNumber = md[i].n
                              /\ links[l].confidence >=
                                     PageConfidence(figures[f], Val(PageOf(md, i)))

\* Question 7 of page 3 refers to a figure; f1 of page 3 is linked at 0.95
\* and f1 of page 5 is not linked.
C15_Witness ==
    /\ PageLinked
    /\ linking.markdown = << Page(3), Question(7), Text(TRUE, 20) >>
    /\ linking.figures = << Figure("f2.png", 3), Figure("f1.png", 5) >>
    /\ linking.links = << [figureId |-> <<"f2.png">>, questionNumber |-> 7,
                           pageNumber |-> 3, confidence |-> 95] >>


\* The links pushed by the two loops before duplicates are removed.
PushedLinks == ScanQuestions(linking.markdown, linking.figures, 1, Null)

\* C16: the result of the page-distance linker never holds two links with
\* the same (figureId, questionNumber); of the links pushed for one pair
\* the one that survives has the highest confidence.
C16_DedupKeepsHighest ==
    PageLinked =>
        LET links == linking.links
        IN  /\ \A a, b \in 1..Len(links) : SameKey(links[a], links[b]) => a = b
            /\ \A l \in 1..Len(links) :
                   \E p \in 1..Len(PushedLinks) : PushedLinks[p] = links[l]
            /\ \A p \in 1..Len(PushedLinks) :
                   \E l \in 1..Len(links) :
                       /\ SameKey(links[l], PushedLinks[p])
                       /\ links[l].confidence >= PushedLinks[p].confidence

\* Question 7 stands on pages 4 and 3: the link to f2 of page 3 is pushed at
\* 0.75 and then at 0.95, and the result holds the 0.95 entry alone.
C16_Witness ==
    /\ PageLinked
    /\ linking.markdown = << Page(4), Question(7), Text(TRUE, 20),
                             Page(3), Question(7), Text(TRUE, 20) >>
    /\ linking.figures = << Figure("f2.png", 3) >>
    /\ PushedLinks[1].confidence = 75
    /\ PushedLinks[2].confidence = 95
    /\ linking.links = << [figureId |-> <<"f2.png">>, questionNumber |-> 7,
                           pageNumber |-> 3, confidence |-> 95] >>


LinksMatchImages(row) ==
    (~IsNull(row.figureQuestionLinks) /\ ~IsNull(row.images)) =>
        LET links == Val(row.figureQuestionLinks)
            images == Val(row.images)
        IN  \A l \in 1..Len(links) :
                \E i \in 1..Len(images) :
                    /\ images[i].name = links[l].figureId
                    /\ images[i].pageNumber = links[l].pageNumber

\* C18: in every stored record, after completion and after reanalyzeLinks,
\* each link's figureId is the name of an image of the same record and its
\* pageNumber is that image's pageNumber.
C18_StoredLinksMatchImages ==
    \A id \in DOMAIN conversions : LinksMatchImages(conversions[id])


\* figuresExtracted counts the figures of the types uploadImagesToS3
\* uploads (lines 285 and 319 apply the same filter): every one of them has
\* its entry in images exactly when no upload was skipped.
EveryImageStored(result) == Len(result.images) = result.figuresExtracted

\* C19: a failed write behind a conversion (the input blob, the Markdown
\* blob, an image blob, or the record when the store is unavailable) fails
\* the call: where convert has returned its payload, the record was
\* created, both blobs of the call are stored and, for a result that came
\* from the worker, so are the Markdown of processPDF and every image.
C19_WriteFailuresAreHard ==
    \A c \in CallIds :
        calls[c].pc = "returned" =>
            /\ calls[c].persisted
            /\ BlobKey(calls[c].conversionId, "input", calls[c].filename) \in DOMAIN blobs
            /\ BlobKey(calls[c].conversionId, "output.md", <<>>) \in DOMAIN blobs
            /\ ~calls[c].workerFailed =>
                   /\ BlobKey(calls[c].tempId, "output.md", <<>>) \in DOMAIN blobs
                   /\ EveryImageStored(Val(calls[c].result))

\* The close handler runs for a worker that has exited with code 0 while
\* the promise is still pending.
ClosesWithSuccess ==
    /\ worker.proc = "exited"
    /\ worker'.proc = "closed"
    /\ worker.code = 0
    /\ ~worker.settled

\* C20: when the worker exits successfully, an absent Markdown file fails
\* the conversion; with the Markdown file there, a missing metadata file or
\* a missing images directory is taken as empty content and the result is
\* handed on.
C20_AbsentMarkdownFails ==
    [][ClosesWithSuccess =>
           IF IsNull(worker.files.md)
           THEN calls'[WorkerCall].workerFailed
           ELSE worker.files.meta.kind # "invalid" =>
                   /\ calls'[WorkerCall].pc = "upload"
                   /\ LET py == Val(calls'[WorkerCall].pyResult)
                      IN  /\ py.markdown = Val(worker.files.md)
                          /\ IsNull(worker.files.images) => py.figures = <<>>
                          /\ worker.files.meta.kind = "none" =>
                                 py.figureQuestionLinks = <<>>]_vars

\* The number of writes storagePut has made under key.
Writes(key) == IF key \in DOMAIN blobs THEN blobs[key] ELSE 0

\* C21: a convert call that returned the result of the worker has written
\* the input once, the Markdown once and every image of its payload once,
\* each under a key conversions/<conversionId>/... of its own conversion id,
\* and nothing under another id.
C21_OneWritePerArtifact ==
    \A c \in CallIds :
        (calls[c].pc = "returned" /\ ~calls[c].workerFailed) =>
            LET id == calls[c].conversionId
                images == Val(calls[c].result).images
            IN  /\ Writes(BlobKey(id, "input", calls[c].filename)) = 1
                /\ Writes(BlobKey(id, "output.md", <<>>)) = 1
                /\ \A i \in 1..Len(images) :
                       Writes(BlobKey(id, "images", images[i].name)) = 1
                /\ \A key \in DOMAIN blobs : key.id # calls[c].tempId

\* The identifiers under which convert call c writes: its conversion id and
\* the id processPDF drew for it.
OwnIds(c) == {calls[c].conversionId, calls[c].tempId} \ {0}

\* What call c owns in the stores: its record, its blobs, its directory.
OwnRecord(c, table) ==
    IF calls[c].conversionId \in DOMAIN table THEN Some(table[calls[c].conversionId])
    ELSE Null
OwnBlobs(c, store) == { <<key, store[key]>> : key \in { k \in DOMAIN store : k.id \in OwnIds(c) } }
OwnDirs(c, dirs) == dirs \cap OwnIds(c)

\* A step of convert call d leaves call c and all that c owns alone.
LeavesAlone(d, c) ==
    (calls'[d] # calls[d]) =>
        /\ calls'[c] = calls[c]
        /\ Started(c) => /\ OwnRecord(c, conversions') = OwnRecord(c, conversions)
                         /\ OwnBlobs(c, blobs') = OwnBlobs(c, blobs)
                         /\ OwnDirs(c, tempDirs') = OwnDirs(c, tempDirs)

\* The payload and the stored result of a returned call name only the
\* call's own ids.
OwnPayload(c) ==
    calls[c].pc = "returned" =>
        LET result == Val(calls[c].result)
        IN  ~calls[c].workerFailed =>
                \A i \in 1..Len(result.images) :
                    result.images[i].url =
                        Url(BlobKey(calls[c].tempId, "images", result.images[i].name))

\* C22: with several conversions in flight, every step of one conversion
\* changes only its own call, record, blobs and temp directory, so the
\* record and the payload of each conversion are those of a run on its own.
C22_ConversionsIsolated ==
    /\ [](\A c \in CallIds : OwnPayload(c))
    /\ [][\A c, d \in CallIds : c # d => LeavesAlone(d, c)]_vars

\* Both conversions are past their worker at the same time, each with its
\* own record and directory.
C22_Witness ==
    /\ calls[1].pc = "procMarkdown"
    /\ calls[2].pc = "procMarkdown"
    /\ HasRecord(1) /\ HasRecord(2)
    /\ calls[1].tempId \in tempDirs /\ calls[2].tempId \in tempDirs
    /\ calls[1].tempId # calls[2].tempId

\* processPDF is entered by call c in this step.
EntersProcessPdf(c) == calls[c].tempId = 0 /\ calls'[c].tempId # 0

\* Call c is handed back to the point where processPDF is called.
BackToProcess(c) == calls[c].pc # "updatePdf" /\ calls[c].pc # "process"
                        /\ calls'[c].pc = "process"

\* C23: nothing is retried.  A convert call enters processPDF (and with it
\* the worker) once, from the await of line 62, and never comes back to that
\* point; a record that is failed stays failed as long as it exists; and a
\* new convert call gets a conversion id no call and no record has.
C23_NoRetry ==
    [][/\ \A c \in CallIds :
              /\ ~BackToProcess(c)
              /\ EntersProcessPdf(c) => calls[c].pc = "process"
              /\ (calls[c].tempId # 0) => calls'[c].tempId = calls[c].tempId
              /\ (calls[c].pc = "idle" /\ calls'[c].pc # "idle") =>
                     /\ calls'[c].conversionId \notin DOMAIN conversions
                     /\ \A d \in CallIds \ {c} :
                            calls'[c].conversionId # calls[d].conversionId
       /\ \A id \in DOMAIN conversions \cap DOMAIN conversions' :
              conversions[id].status = "failed" => conversions'[id].status = "failed"
      ]_vars

\* The first conversion ended failed after its worker had been invoked, and
\* the caller has submitted again: a new call with a new id.
C23_Witness ==
    /\ calls[1].pc = "thrown"
    /\ calls[1].tempId # 0
    /\ calls[1].workerFailed
    /\ HasRecord(1) /\ RecordOf(1).status = "failed"
    /\ Started(2)
    /\ calls[2].filename = calls[1].filename
    /\ calls[2].conversionId # calls[1].conversionId

\* Where convert call c stands in its pipeline.
InputStored(c) ==
    BlobKey(calls[c].conversionId, "input", calls[c].filename) \in DOMAIN blobs
WorkerInvoked(c) == calls[c].tempId # 0
WorkerPending(c) == calls[c].pc \in {"process", "waiting", "upload", "procMarkdown"}
MarkdownStored(c) ==
    BlobKey(calls[c].conversionId, "output.md", <<>>) \in DOMAIN blobs
InFlight(c) == Started(c) /\ ~Over(c)

OffsetLinked == linking.done /\ routerVersion = "storage.ts"

\* The first image embed of the Markdown that names the file; 0 if none.
Reference(md, name) ==
    LET refs == { i \in 1..Len(md) : md[i].t = "img" /\ Occurs(name, md[i].name) }
    IN  IF refs = {} THEN 0 ELSE CHOOSE i \in refs : \A j \in refs : i <= j

\* The question markers at a strictly smaller offset than the piece at i.
QuestionsBefore(md, i) ==
    { j \in 1..Len(md) : md[j].t = "q" /\ Offset(md, j) < Offset(md, i) }

\* The marker among them with the smallest offset difference.
NearestBefore(md, i) ==
    CHOOSE j \in QuestionsBefore(md, i) :
        \A k \in QuestionsBefore(md, i) :
            Offset(md, i) - Offset(md, j) <= Offset(md, i) - Offset(md, k)

\* The figure has a reference with a question marker before it.
Linkable(md, figure) ==
    /\ Reference(md, figure.name) # 0
    /\ QuestionsBefore(md, Reference(md, figure.name)) # {}

\* C25: the offset linker gives each supplied figure at most one link; a
\* figure whose file no image embed names, or whose reference has no
\* question marker before it, gets none; a link that is produced names the
\* nearest question marker before the reference.
C25_NearestPrecedingQuestion ==
    OffsetLinked =>
        LET md == linking.markdown
            figures == linking.figures
            links == linking.links
            Named(name) == { f \in 1..Len(figures) : figures[f].name = name }
            LinksOf(name) == { l \in 1..Len(links) : links[l].figureId = name }
        IN  /\ \A f \in 1..Len(figures) :
                   /\ Cardinality(LinksOf(figures[f].name))
                          <= Cardinality(Named(figures[f].name))
                   /\ ~Linkable(md, figures[f]) => LinksOf(figures[f].name) = {}
            /\ \A l \in 1..Len(links) :
                   \E f \in 1..Len(figures) :
                       /\ figures[f].name = links[l].figureId
                       /\ Linkable(md, figures[f])
                       /\ links[l].questionNumber =
                              md[NearestBefore(md, Reference(md, figures[f].name))].n

\* The figures whose reference the linker found at the embed that names
\* them, with a question marker before it.
LinkableAtOwnEmbed(md, figures) ==
    { f \in 1..Len(figures) :
        /\ Linkable(md, figures[f])
        /\ ImageMatch(md, figures[f].name) = Reference(md, figures[f].name) }

\* The distance in characters from the nearest question marker before the
\* figure's reference to that reference.
NearestDistance(md, figure) ==
    Offset(md, Reference(md, figure.name))
        - Offset(md, NearestBefore(md, Reference(md, figure.name)))

\* The confidence (in hundredths) is max(0.5, 1 - d/5000) to the nearest
\* hundredth, a tie going either way.
RoundedScore(confidence, d) ==
    LET exact == Max(50 * LinkThreshold, (LinkThreshold - d) * 100)
        off == confidence * LinkThreshold - exact
    IN  /\ 2 * off <= LinkThreshold
        /\ 2 * off >= 0 - LinkThreshold

\* C26: a figure whose nearest preceding question is d characters before its
\* reference gets no link if d exceeds 5000 and gets a link for every d up
\* to and including 5000; the confidence of its link is
\* max(0.5, 1 - d/5000) rounded to two decimal places and lies in [0.5, 1].
C26_ThresholdAndScore ==
    OffsetLinked =>
        LET md == linking.markdown
            figures == linking.figures
            links == linking.links
            LinksOf(name) == { l \in 1..Len(links) : links[l].figureId = name }
        IN  \A f \in LinkableAtOwnEmbed(md, figures) :
                LET d == NearestDistance(md, figures[f])
                    own == LinksOf(figures[f].name)
                IN  /\ d > LinkThreshold => own = {}
                    /\ d <= LinkThreshold => own # {}
                    /\ \A l \in own :
                           /\ links[l].confidence >= 50
                           /\ links[l].confidence <= 100
                           /\ RoundedScore(links[l].confidence, d)

\* The worker promise of the call resolved and its value is at hand.
Resolved(c) == worker.proc = "closed" /\ ~IsNull(calls[c].pyResult)

\* The largest page number among the image files of the output directory,
\* 0 without any.
MaxFigurePage(files) ==
    IF IsNull(files.images) THEN 0
    ELSE LET figures == ReadFigures(routerVersion, Val(files.images))
         IN  SeqMax([i \in 1..Len(figures) |-> figures[i].page])

\* C27: when the metadata of the worker gives no (zero) page total, the
\* totalPages of the result is the largest figure page number, or zero
\* without figures, whatever was scraped from the progress output.
C27_PageCountFallback ==
    (Resolved(WorkerCall) /\ worker.files.meta.total_pages = 0) =>
        Val(calls[WorkerCall].pyResult).totalPages = MaxFigurePage(worker.files)

\* The close or the error event of the process has been handled.
ProcessOver == worker.proc \in {"closed", "failed"}

\* An event of the process or of the timer is handled in this step.
WorkerEvent == worker' # worker /\ worker.proc # "none"

\* C28: the worker invocation settles exactly once.  The event that
\* settles the promise resumes the waiting processPDF; an event handled
\* after that changes nothing of what the call, the store or the file
\* system hold, so a reported failure stays a failure and a success a
\* success; and once the close or the error event was handled the timer
\* is not armed, never fires and sends no signal.
C28_SettlesOnce ==
    /\ [](ProcessOver => worker.settled /\ worker.timer # "armed")
    /\ [][/\ worker.settled => worker'.settled
          /\ (WorkerEvent /\ ~worker.settled /\ worker'.settled) =>
                 /\ calls[WorkerCall].pc = "waiting"
                 /\ calls'[WorkerCall].pc # "waiting"
          /\ (WorkerEvent /\ worker.settled) =>
                 UNCHANGED << calls, conversions, blobs, tempDirs >>
          /\ ProcessOver =>
                 /\ worker'.timer = worker.timer
                 /\ worker'.signalled = worker.signalled]_vars

\* The timer fired and reported the timeout, and the process then closed
\* with exit code 0 and readable files; the call still has the failure.
C28_Witness ==
    /\ worker.timer = "fired"
    /\ worker.proc = "closed"
    /\ worker.code = 0
    /\ worker.files.meta.kind # "invalid"
    /\ calls[WorkerCall].workerFailed
    /\ IsNull(calls[WorkerCall].pyResult)

\* The number of rows a client has seen when it asks for page after page
\* of the given size, moving offset on by the number of rows returned,
\* until hasMore is false; the table stays as it is meanwhile.
RECURSIVE RowsSeen(_, _, _, _)
RowsSeen(table, user, limit, offset) ==
    LET input == Some([limit |-> Some(limit), offset |-> Some(offset)])
        response == CHOOSE r \in history(TRUE, table, user, input) : TRUE
        seen == offset + Len(response.conversions)
    IN  IF response.hasMore /\ Len(response.conversions) > 0
        THEN RowsSeen(table, user, limit, seen)
        ELSE seen

\* C29: for every content of the table and every caller, the total of a
\* history response is the number of records history pages over, hasMore
\* tells whether records remain beyond offset + returned.length, and a
\* client that pages until hasMore is false has seen every record.
C29_TotalCountsPagedRecords ==
    dbAvailable =>
        /\ \A user \in Callers, input \in HistoryInputs :
               \A response \in history(dbAvailable, conversions, user, input) :
                   /\ response.total = Cardinality(DOMAIN conversions)
                   /\ response.hasMore =
                          (OffsetOf(input) + Len(response.conversions)
                               < Cardinality(DOMAIN conversions))
        /\ \A user \in Callers, limit \in 1..2 :
               RowsSeen(conversions, user, limit, 0) = Cardinality(DOMAIN conversions)

\* The record of the call was created and has been deleted since.
DeletedRecord(c) == calls[c].persisted /\ ~HasRecord(c)

\* The convert call takes a step.
ConvertStep(c) == calls'[c] # calls[c]

\* C30: when delete has removed the record of a convert call that is still
\* in flight, the record stays absent: the updates the call makes later
\* (the key of the input, the results, the failure) do not create it again
\* and change no other record, and get keeps answering "Conversion not
\* found" for its id.
C30_DeletedInFlightStaysAbsent ==
    /\ [](\A c \in CallIds :
            DeletedRecord(c) =>
                get(dbAvailable, conversions, calls[c].conversionId).outcome
                    = "Conversion not found")
    /\ [][\A c \in CallIds :
            DeletedRecord(c) =>
                /\ DeletedRecord(c)'
                /\ ConvertStep(c) => conversions' = conversions]_vars

\* C30 witness: the record of a call was deleted while the call is in
\* flight, the call has its results and is about to write them to the
\* record, and the record of the other call is there.
C30_Witness ==
    \E c, d \in CallIds :
        /\ DeletedRecord(c)
        /\ calls[c].pc = "updateCompleted"
        /\ HasRecord(d)
        /\ c # d
====
